---- MODULE Spec2Model ----
(***************************************************************************)
(* Model of the embedded-savegame store: the 31-bit chained checksum       *)
(* (src/src/chksum.rs), the slot header (src/src/lib.rs), the two mock     *)
(* flash devices (src/src/mock.rs) and the Storage engine                  *)
(* (src/src/storage.rs).  The same sequence of store operations is run in  *)
(* lockstep against the byte-erase device (MockFlash) and the sector-erase *)
(* device (SectorMockFlash).                                               *)
(***************************************************************************)
EXTENDS Integers, Sequences, FiniteSets, TLC

(***************************************************************************)
(* Sizes.  SLOT_SIZE and SLOT_COUNT are the const generics of Storage; the *)
(* header layout is fixed by the crate.                                    *)
(***************************************************************************)
SLOT_SIZE == 14

SLOT_COUNT == 3

CHKSUM_SIZE == 4

LENGTH_SIZE == 4

HEADER_SIZE == CHKSUM_SIZE * 2 + LENGTH_SIZE

SPACE == SLOT_SIZE * SLOT_COUNT

Erased == 255

Byte == 0..255

(***************************************************************************)
(* Bit operations on bytes (u8 & u8, u8 ^ u8).                             *)
(***************************************************************************)
RECURSIVE BitAnd(_, _, _)
BitAnd(a, b, n) ==
    IF n = 0 THEN 0
    ELSE (IF a % 2 = 1 /\ b % 2 = 1 THEN 1 ELSE 0) + 2 * BitAnd(a \div 2, b \div 2, n - 1)

RECURSIVE BitXor(_, _, _)
BitXor(a, b, n) ==
    IF n = 0 THEN 0
    ELSE (IF a % 2 # b % 2 THEN 1 ELSE 0) + 2 * BitXor(a \div 2, b \div 2, n - 1)

\* the two operations tabulated once
AndTable == [a \in Byte |-> [b \in Byte |-> BitAnd(a, b, 8)]]

XorTable == [a \in Byte |-> [b \in Byte |-> BitXor(a, b, 8)]]

AndByte(a, b) == AndTable[a][b]

XorByte(a, b) == XorTable[a][b]

(***************************************************************************)
(* u32 values are kept as two 16-bit halves, so that 0xFFFFFFFF and the    *)
(* wrapping multiplication of the hash stay inside TLC's 32-bit integers.  *)
(***************************************************************************)
U32(h, l) == [hi |-> h, lo |-> l]

U32FromNat(n) == U32((n \div 65536) % 65536, n % 65536)

u32_to_be_bytes(x) == <<x.hi \div 256, x.hi % 256, x.lo \div 256, x.lo % 256>>

u32_from_be_bytes(bs) == U32(bs[1] * 256 + bs[2], bs[3] * 256 + bs[4])

\* a slip: a buffer of exactly the stored length is refused
U32AtLeast(x, n) == x.hi > 0 \/ x.lo >= n

\* `n < x as usize` for a length n that fits 16 bits
U32Exceeds(x, n) == x.hi > 0 \/ x.lo > n

(***************************************************************************)
(* chksum.rs                                                               *)
(***************************************************************************)
\* a slip: the most significant bit is kept
chksum_mask_none(x) == x

\* CHKSUM_MASK = u32::MAX >> 1, applied to a value
chksum_mask(x) == U32(x.hi % 32768, x.lo)

BYTE_MASK == 128

zero == U32(0, 0)

chksum_to_bytes(c) == u32_to_be_bytes(c)

chksum_from_bytes(bs) == u32_from_be_bytes(bs)

\* one round of the djb2 stream hash: h = h.wrapping_mul(33) ^ byte
djb2_step(h, b) ==
    LET m  == h.lo * 33
        l  == m % 65536
        hh == (h.hi * 33 + (m \div 65536)) % 65536
    IN  U32(hh, (l \div 256) * 256 + XorByte(l % 256, b))

\* the rounds over data[i..]
RECURSIVE djb2_rounds(_, _, _)
djb2_rounds(h, data, i) ==
    IF i > Len(data) THEN h
    ELSE LET h1 == djb2_step(h, data[i])
         IN  \* the test has h1 evaluated before the next round
             IF h1.hi >= 0 THEN djb2_rounds(h1, data, i + 1) ELSE h1

djb2_hash_with_initial(h, data) == djb2_rounds(h, data, 1)

djb2_hash(data) == djb2_hash_with_initial(U32FromNat(5381), data)

hash(prev, data) ==
    chksum_mask(djb2_hash_with_initial(djb2_hash(chksum_to_bytes(prev)), data))

chksum_is_valid(c) == c.hi \div 32768 = 0

(***************************************************************************)
(* lib.rs: the slot header                                                 *)
(***************************************************************************)
Slot(i, c, l, p) == [idx |-> i, chksum |-> c, len |-> l, prev |-> p]

\* a slip: the header does not record its predecessor
create_unlinked(idx, prev, data) ==
    Slot(idx, hash(prev, data), U32FromNat(Len(data)), zero)

create(idx, prev, data) == Slot(idx, hash(prev, data), U32FromNat(Len(data)), prev)

slot_is_valid(s) == chksum_is_valid(s.chksum) /\ chksum_is_valid(s.prev)

\* a slip: the link followed the wrong way round
is_update_to_reversed(s, other) == s.chksum = other.prev

is_update_to(s, other) == s.prev = other.chksum

Min(a, b) == IF a < b THEN a ELSE b

\* the loop of Slot::used_bytes::<SLOT_SIZE>, for the slot size slot_size
RECURSIVE used_bytes_loop(_, _, _, _)
used_bytes_loop(slot_size, size, remaining_data, remaining_space) ==
    LET this_round == Min(remaining_space, remaining_data)
        size1      == size + this_round
        rest       == remaining_data - this_round
    IN  IF rest = 0 THEN size1
        ELSE used_bytes_loop(slot_size, size1 + 1, rest, slot_size - 1)

\* a slip: the first slot is taken to hold as much payload as the others
used_bytes_in_even(slot_size, len) ==
    used_bytes_loop(slot_size, HEADER_SIZE, len, slot_size - 1)

\* Slot::used_bytes::<slot_size> of a slot with payload length len
used_bytes_in(slot_size, len) ==
    used_bytes_loop(slot_size, HEADER_SIZE, len, slot_size - HEADER_SIZE)

\* a slip: the reserved first byte of the continuation slots is not counted
used_bytes_flat(len) == HEADER_SIZE + len

\* len is the payload length as a number (self.len as usize)
used_bytes(len) == used_bytes_in(SLOT_SIZE, len)

\* a slip: the quotient is rounded down
div_floor(a, b) == a \div b

div_ceil(a, b) == (a + b - 1) \div b

U32ToNat(x) == x.hi * 65536 + x.lo

\* a slip: the slots of a spanning record are not counted
next_slot_single(s) == (s.idx + 1) % SLOT_COUNT

next_slot(s) ==
    (s.idx + div_ceil(used_bytes(U32ToNat(s.len)), SLOT_SIZE)) % SLOT_COUNT

\* a slip: prev is laid out before the length
slot_to_bytes_swapped(s) ==
    chksum_to_bytes(s.chksum) \o chksum_to_bytes(s.prev) \o u32_to_be_bytes(s.len)

slot_to_bytes(s) ==
    chksum_to_bytes(s.chksum) \o u32_to_be_bytes(s.len) \o chksum_to_bytes(s.prev)

slot_from_bytes(idx, bytes) ==
    Slot(idx,
         chksum_from_bytes(SubSeq(bytes, 1, CHKSUM_SIZE)),
         u32_from_be_bytes(SubSeq(bytes, CHKSUM_SIZE + 1, CHKSUM_SIZE + LENGTH_SIZE)),
         chksum_from_bytes(SubSeq(bytes, CHKSUM_SIZE + LENGTH_SIZE + 1, HEADER_SIZE)))

(***************************************************************************)
(* mock.rs: the two in-memory devices                                      *)
(***************************************************************************)
Backends == {"byte", "sector"}

\* MockFlash::new / SectorMockFlash::new
mock_new == [a \in 0..(SPACE - 1) |-> Erased]

sector_new == [s \in 0..(SLOT_COUNT - 1) |-> [o \in 0..(SLOT_SIZE - 1) |-> Erased]]

mock_read(d, addr, n) == [i \in 1..n |-> d[addr + i - 1]]

mock_write(d, addr, data) ==
    [a \in DOMAIN d |->
        IF a >= addr /\ a < addr + Len(data) THEN data[a - addr + 1] ELSE d[a]]

\* a slip: erase leaves the byte as it was
mock_erase_nothing(d, addr) == d

mock_erase(d, addr) == [d EXCEPT ![addr] = Erased]

div_rem(addr) == <<addr \div SLOT_SIZE, addr % SLOT_SIZE>>

sector_read(d, addr, n) ==
    LET sector == div_rem(addr)[1]
        offset == div_rem(addr)[2]
    IN  [i \in 1..n |-> d[sector][offset + i - 1]]

sector_write(d, addr, data) ==
    LET sector == div_rem(addr)[1]
        offset == div_rem(addr)[2]
    IN  [d EXCEPT ![sector] =
            [o \in DOMAIN d[sector] |->
                IF o >= offset /\ o < offset + Len(data)
                THEN AndByte(d[sector][o], data[o - offset + 1])
                ELSE d[sector][o]]]

\* a slip: only the addressed byte of the sector is reset
sector_erase_first(d, addr) ==
    [d EXCEPT ![div_rem(addr)[1]][div_rem(addr)[2]] = Erased]

sector_erase(d, addr) ==
    [d EXCEPT ![div_rem(addr)[1]] = [o \in 0..(SLOT_SIZE - 1) |-> Erased]]

flash_new(b) == IF b = "byte" THEN mock_new ELSE sector_new

flash_read(b, d, addr, n) ==
    IF b = "byte" THEN mock_read(d, addr, n) ELSE sector_read(d, addr, n)

flash_write(b, d, addr, data) ==
    IF b = "byte" THEN mock_write(d, addr, data) ELSE sector_write(d, addr, data)

\* a slip: the erase is not passed on to the device
flash_erase_none(b, d, addr) == d

flash_erase(b, d, addr) ==
    IF b = "byte" THEN mock_erase(d, addr) ELSE sector_erase(d, addr)

\* Flash::erase_all, the default of the trait, which both mocks inherit:
\* for idx in 0..count { self.erase(idx as u32)?; }  Erases are applied for
\* idx = 0 .. upto-1 (upto = count when no erase fails).
RECURSIVE flash_erase_all(_, _, _)
flash_erase_all(b, d, upto) ==
    IF upto = 0 THEN d
    ELSE flash_erase(b, flash_erase_all(b, d, upto - 1), upto - 1)

(***************************************************************************)
(* storage.rs: the Storage engine.  Every operator returns, next to its    *)
(* value, the list of device accesses it issued.                           *)
(***************************************************************************)
None == [some |-> FALSE]

Some(x) == [some |-> TRUE, v |-> x]

Access(k, a, n) == [kind |-> k, addr |-> a, n |-> n]

\* Storage::new
storage_new == [prev |-> zero, idx |-> 0]

\* a slip: the slot index is not reduced modulo SLOT_COUNT
addr_nomod(idx) == idx * SLOT_SIZE

\* a slip: the slot index is taken for the byte address
addr_unscaled(idx) == idx % SLOT_COUNT

addr(idx) == (idx % SLOT_COUNT) * SLOT_SIZE

\* a slip: the whole header is read before the first byte is looked at
scan_slot_whole(b, d, idx) ==
    LET a    == addr(idx)
        slot == slot_from_bytes(idx, flash_read(b, d, a, HEADER_SIZE))
    IN  [slot |-> IF AndByte(flash_read(b, d, a, 1)[1], BYTE_MASK) = 0 /\ slot_is_valid(slot)
                  THEN Some(slot) ELSE None,
         acc  |-> <<Access("read", a, HEADER_SIZE)>>]

scan_slot(b, d, idx) ==
    LET a    == addr(idx)
        head == flash_read(b, d, a, 1)
    IN  IF AndByte(head[1], BYTE_MASK) # 0
        THEN [slot |-> None, acc |-> <<Access("read", a, 1)>>]
        ELSE LET tail == flash_read(b, d, a + 1, HEADER_SIZE - 1)
                 slot == slot_from_bytes(idx, head \o tail)
             IN  [slot |-> IF slot_is_valid(slot) THEN Some(slot) ELSE None,
                  acc  |-> <<Access("read", a, 1),
                             Access("read", a + 1, HEADER_SIZE - 1)>>]

\* a slip: every later valid header replaces the candidate
RECURSIVE scan_loop_last(_, _, _, _, _)
scan_loop_last(b, d, from, current, acc) ==
    IF from = SLOT_COUNT THEN [current |-> current, acc |-> acc]
    ELSE LET r == scan_slot(b, d, from)
             c == IF ~r.slot.some THEN current ELSE r.slot
         IN  scan_loop_last(b, d, from + 1, c, acc \o r.acc)

\* the loop of Storage::scan over idx in from..SLOT_COUNT-1
RECURSIVE scan_loop(_, _, _, _, _)
scan_loop(b, d, from, current, acc) ==
    IF from = SLOT_COUNT THEN [current |-> current, acc |-> acc]
    ELSE LET r == scan_slot(b, d, from)
             c == IF ~r.slot.some THEN current
                  ELSE IF current.some
                       THEN (IF is_update_to(r.slot.v, current.v) THEN r.slot ELSE current)
                       ELSE r.slot
         IN  scan_loop(b, d, from + 1, c, acc \o r.acc)

\* a slip: the loop starts at slot 1
scan_from_one(b, d) == scan_loop(b, d, 1, None, <<>>)

scan(b, d) == scan_loop(b, d, 0, None, <<>>)

\* the state assignment at the end of Storage::scan
\* a slip: a scan that finds nothing resets the store
scan_state_reset(st, current) ==
    IF current.some
    THEN [prev |-> current.v.chksum, idx |-> next_slot(current.v)]
    ELSE storage_new

scan_state(st, current) ==
    IF current.some
    THEN [prev |-> current.v.chksum, idx |-> next_slot(current.v)]
    ELSE st

\* a slip: continuation slots are read from their first byte, the marker
RECURSIVE read_loop_marker(_, _, _, _, _, _, _)
read_loop_marker(b, d, idx, a, n, remaining_space, out) ==
    IF n = 0 THEN out
    ELSE LET read_size == Min(remaining_space, n)
             idx1      == (idx + 1) % SLOT_COUNT
         IN  read_loop_marker(b, d, idx1, addr(idx1), n - read_size, SLOT_SIZE - 1,
                              [val |-> out.val \o flash_read(b, d, a, read_size),
                               acc |-> Append(out.acc, Access("read", a, read_size))])

\* the loop of Storage::read: n payload bytes still to read
RECURSIVE read_loop(_, _, _, _, _, _, _)
read_loop(b, d, idx, a, n, remaining_space, out) ==
    IF n = 0 THEN out
    ELSE LET read_size == Min(remaining_space, n)
             idx1      == (idx + 1) % SLOT_COUNT
         IN  read_loop(b, d, idx1, addr(idx1) + 1, n - read_size, SLOT_SIZE - 1,
                       [val |-> out.val \o flash_read(b, d, a, read_size),
                        acc |-> Append(out.acc, Access("read", a, read_size))])

read(b, d, idx, buflen) ==
    LET a    == addr(idx)
        slot == slot_from_bytes(idx, flash_read(b, d, a, HEADER_SIZE))
        hacc == <<Access("read", a, HEADER_SIZE)>>
    IN  IF U32Exceeds(slot.len, buflen)
        THEN [val |-> None, acc |-> hacc]
        ELSE LET r == read_loop(b, d, idx, a + HEADER_SIZE, U32ToNat(slot.len),
                                SLOT_SIZE - HEADER_SIZE, [val |-> <<>>, acc |-> hacc])
             IN  [val |-> Some(r.val), acc |-> r.acc]

(***************************************************************************)
(* Bounds of the model and the inputs driven through the store.            *)
(***************************************************************************)
\* slots written beyond one full turn of the ring
ExtraSlots == 2

\* an append starts while fewer slots than this have been written
MaxSlots == SLOT_COUNT + ExtraSlots

\* disturbances per behaviour that change the device or reset the store:
\* a write that ends in a device error, a power cut, an erase, an erase_all
MaxEvents == 1

\* appends started after a disturbance
PostAppends == 1

\* payload bytes that fit the first slot / the whole ring
FIRST_SPACE == SLOT_SIZE - HEADER_SIZE

MAX_PAYLOAD == FIRST_SPACE + (SLOT_COUNT - 1) * (SLOT_SIZE - 1)

\* a payload of n bytes: 'A', 'B', 'C', ... as in the tests' byte strings
MkData(n) == [i \in 1..n |-> 64 + i]

PayloadLens == {0, FIRST_SPACE, FIRST_SPACE + 1, MAX_PAYLOAD, MAX_PAYLOAD + 1}

Payloads == {MkData(n) : n \in PayloadLens}

BufLens == {FIRST_SPACE, MAX_PAYLOAD}

SlotIdx == 0..(SLOT_COUNT - 1)

FitsRing(data) == Len(data) <= MAX_PAYLOAD

(***************************************************************************)
(* State.                                                                  *)
(***************************************************************************)
VARIABLES
    dev,    \* dev[b]: contents of the device of backend b
    st,     \* st[b]: the Storage fields (prev, idx) of the store over dev[b]
    pc,     \* position of the caller: "idle" (between calls), "boot" (store just
            \* created), "payload" / "erase" / "header" (inside Storage::write),
            \* "ret" (a call has returned, res holds its result), "off" (no power)
    w,      \* locals of the Storage::write in progress
    res,    \* the last operation, its arguments and its result per backend
    hist    \* history: what has been appended so far, and how

vars == <<dev, st, pc, w, res, hist>>

NoWrite ==
    [data |-> <<>>, full |-> <<>>, remaining_space |-> 0,
     per |-> [b \in Backends |-> [slot |-> Slot(0, zero, zero, zero), slot_addr |-> 0,
                                   addr |-> 0, idx |-> 0, tip |-> None]]]

Result(op, arg, ok, out) == [op |-> op, arg |-> arg, ok |-> ok, out |-> out]

NoOut == [b \in Backends |-> [val |-> None, acc |-> <<>>]]

Init ==
    /\ dev = [b \in Backends |-> flash_new(b)]
    /\ st = [b \in Backends |-> storage_new]
    /\ pc = "idle"
    /\ w = NoWrite
    /\ res = Result("none", <<>>, TRUE, NoOut)
    /\ hist = [nslots |-> 0, ndone |-> 0, nevt |-> 0, post |-> 0, pure |-> TRUE, fit |-> TRUE,
               oneslot |-> TRUE, clobber |-> FALSE, torn |-> 0, booted |-> FALSE,
               exp |-> None, chain |-> zero, stA |-> None, cut |-> FALSE,
               wear |-> [b \in Backends |-> [i \in SlotIdx |-> 0]]]

\* a device error is injected into the current device call of a write
FailHere(ok) == ~ok => hist.nevt < MaxEvents

\* the history after a disturbance
Failed(h) == [h EXCEPT !.nevt = @ + 1, !.pure = FALSE]

\* the history after the erase calls at the addresses as, per backend: one
\* more erase of the slot each address lies in
Wear(h, as) ==
    [h EXCEPT !.wear = [b \in Backends |-> [i \in SlotIdx |->
        @[b][i] + Cardinality({a \in as[b] : a \div SLOT_SIZE = i})]]]

\* some byte of [a, a+n) of the sector device is not in the erased state
Programmed(d, a, n) ==
    \E x \in a..(a + n - 1) :
        x < SPACE /\ d[x \div SLOT_SIZE][x % SLOT_SIZE] # Erased

(***************************************************************************)
(* Storage::append = Storage::write(self.idx, self.prev, data) followed by *)
(* the assignment of (idx, prev); one action per device call of write.     *)
(***************************************************************************)
\* storage.rs 259-264: create the slot, erase the first slot
AppendStart(data, ok) ==
    /\ pc = "idle"
    /\ hist.nslots < MaxSlots
    /\ hist.nevt > 0 => hist.post < PostAppends
    /\ LET per == [b \in Backends |->
                      [slot      |-> create(st[b].idx, st[b].prev, data),
                       slot_addr |-> addr(st[b].idx),
                       addr      |-> addr(st[b].idx) + HEADER_SIZE,
                       idx       |-> st[b].idx,
                       tip       |-> scan(b, dev[b]).current]]
           out == [b \in Backends |->
                      [val |-> None, acc |-> <<Access("erase", per[b].slot_addr, 1)>>]]
       IN  IF ok
           THEN /\ dev' = [b \in Backends |-> flash_erase(b, dev[b], per[b].slot_addr)]
                /\ w' = [data |-> data, full |-> data,
                         remaining_space |-> SLOT_SIZE - HEADER_SIZE, per |-> per]
                /\ pc' = "payload"
                /\ res' = Result("append", <<>>, TRUE, out)
                /\ hist' = Wear([hist EXCEPT !.post = IF hist.nevt > 0 THEN @ + 1 ELSE @,
                                              !.cut = FALSE],
                                 [b \in Backends |-> {per[b].slot_addr}])
           ELSE /\ res' = Result("append", <<>>, FALSE, out)
                /\ pc' = "ret"
                /\ UNCHANGED <<dev, w, hist>>
    /\ UNCHANGED st

\* the result of the append in progress, with one more device access
Logged(ok, acc) ==
    [res EXCEPT !.ok = ok,
                !.out = [b \in Backends |-> [val |-> None,
                                             acc |-> Append(res.out[b].acc, acc[b])]]]

\* a slip: the index runs past the last slot
advance_nowrap(idx) == idx + 1

\* storage.rs 271: idx = idx.saturating_add(1) % SLOT_COUNT
advance(idx) == (idx + 1) % SLOT_COUNT

\* storage.rs 267-276: write the next chunk of payload, advance idx
WritePayload(ok) ==
    /\ pc = "payload"
    /\ FailHere(ok)
    /\ LET write_size == Min(w.remaining_space, Len(w.data))
           to_write   == SubSeq(w.data, 1, write_size)
           remaining  == SubSeq(w.data, write_size + 1, Len(w.data))
           acc == [b \in Backends |-> Access("write", w.per[b].addr, write_size)]
       IN  /\ res' = Logged(ok, acc)
           /\ IF ok
              THEN /\ dev' = [b \in Backends |->
                                 flash_write(b, dev[b], w.per[b].addr, to_write)]
                   /\ w' = [w EXCEPT !.data = remaining,
                                     !.per = [b \in Backends |->
                                         [w.per[b] EXCEPT
                                             !.idx = advance(w.per[b].idx)]]]
                   /\ pc' = IF remaining = <<>> THEN "header" ELSE "erase"
                   /\ hist' = [hist EXCEPT !.nslots = @ + 1,
                                            !.clobber =
                                  @ \/ Programmed(dev["sector"], w.per["sector"].addr,
                                                  write_size)]
              ELSE /\ pc' = "ret"
                   /\ w' = NoWrite
                   /\ hist' = Failed(hist)
                   /\ UNCHANGED dev
    /\ UNCHANGED st

\* a slip: the payload continues at the first byte of the next slot
EraseNextAtHead(ok) ==
    /\ pc = "erase"
    /\ FailHere(ok)
    /\ LET a   == [b \in Backends |-> addr(w.per[b].idx)]
           acc == [b \in Backends |-> Access("erase", a[b], 1)]
       IN  /\ res' = Logged(ok, acc)
           /\ IF ok
              THEN /\ dev' = [b \in Backends |-> flash_erase(b, dev[b], a[b])]
                   /\ w' = [w EXCEPT !.remaining_space = SLOT_SIZE,
                                     !.per = [b \in Backends |->
                                         [w.per[b] EXCEPT !.addr = a[b]]]]
                   /\ pc' = "payload"
                   /\ hist' = Wear(hist, [b \in Backends |-> {a[b]}])
              ELSE /\ pc' = "ret"
                   /\ w' = NoWrite
                   /\ hist' = Failed(hist)
                   /\ UNCHANGED dev
    /\ UNCHANGED st

\* storage.rs 278-282: erase the next slot, continue behind its first byte
EraseNext(ok) ==
    /\ pc = "erase"
    /\ FailHere(ok)
    /\ LET a   == [b \in Backends |-> addr(w.per[b].idx)]
           acc == [b \in Backends |-> Access("erase", a[b], 1)]
       IN  /\ res' = Logged(ok, acc)
           /\ IF ok
              THEN /\ dev' = [b \in Backends |-> flash_erase(b, dev[b], a[b])]
                   /\ w' = [w EXCEPT !.remaining_space = SLOT_SIZE - 1,
                                     !.per = [b \in Backends |->
                                         [w.per[b] EXCEPT !.addr = a[b] + 1]]]
                   /\ pc' = "payload"
                   /\ hist' = Wear(hist, [b \in Backends |-> {a[b]}])
              ELSE /\ pc' = "ret"
                   /\ w' = NoWrite
                   /\ hist' = Failed(hist)
                   /\ UNCHANGED dev
    /\ UNCHANGED st

\* a slip: (idx, prev) are assigned although the header write failed
WriteHeaderAssigning(ok) ==
    /\ pc = "header"
    /\ FailHere(ok)
    /\ LET acc == [b \in Backends |-> Access("write", w.per[b].slot_addr, HEADER_SIZE)]
       IN  /\ res' = Logged(ok, acc)
           /\ IF ok
              THEN /\ dev' = [b \in Backends |->
                                 flash_write(b, dev[b], w.per[b].slot_addr,
                                             slot_to_bytes(w.per[b].slot))]
                   /\ st' = [b \in Backends |->
                                [prev |-> w.per[b].slot.chksum, idx |-> w.per[b].idx]]
                   /\ hist' = [hist EXCEPT
                          !.ndone = @ + 1,
                          !.fit = @ /\ FitsRing(w.full),
                          !.oneslot = @ /\ Len(w.full) <= FIRST_SPACE,
                          !.clobber = @ \/ Programmed(dev["sector"],
                                                      w.per["sector"].slot_addr,
                                                      HEADER_SIZE),
                          !.chain = hash(hist.chain, w.full),
                          !.exp = Some([chksum |-> hash(hist.chain, w.full),
                                        len |-> Len(w.full),
                                        prev |-> hist.chain,
                                        data |-> w.full])]
              ELSE /\ hist' = Failed(hist)
                   /\ st' = [b \in Backends |->
                                [prev |-> w.per[b].slot.chksum, idx |-> w.per[b].idx]]
                   /\ UNCHANGED dev
    /\ pc' = "ret"
    /\ w' = NoWrite

\* storage.rs 287-290 and 298-301: write the header, return (idx, chksum),
\* which append assigns to the store
WriteHeader(ok) ==
    /\ pc = "header"
    /\ FailHere(ok)
    /\ LET acc == [b \in Backends |-> Access("write", w.per[b].slot_addr, HEADER_SIZE)]
       IN  /\ res' = Logged(ok, acc)
           /\ IF ok
              THEN /\ dev' = [b \in Backends |->
                                 flash_write(b, dev[b], w.per[b].slot_addr,
                                             slot_to_bytes(w.per[b].slot))]
                   /\ st' = [b \in Backends |->
                                [prev |-> w.per[b].slot.chksum, idx |-> w.per[b].idx]]
                   /\ hist' = [hist EXCEPT
                          !.ndone = @ + 1,
                          !.fit = @ /\ FitsRing(w.full),
                          !.oneslot = @ /\ Len(w.full) <= FIRST_SPACE,
                          !.clobber = @ \/ Programmed(dev["sector"],
                                                      w.per["sector"].slot_addr,
                                                      HEADER_SIZE),
                          !.chain = hash(hist.chain, w.full),
                          !.exp = Some([chksum |-> hash(hist.chain, w.full),
                                        len |-> Len(w.full),
                                        prev |-> hist.chain,
                                        data |-> w.full])]
              ELSE /\ hist' = Failed(hist)
                   /\ UNCHANGED <<dev, st>>
    /\ pc' = "ret"
    /\ w' = NoWrite

(***************************************************************************)
(* Loss of power.  Between two device calls of a write the device keeps    *)
(* what the completed calls did; the store object is gone and a new one is *)
(* created over the same device at the next boot.                          *)
(***************************************************************************)
\* the write in progress is an append of a payload that fits the ring, to a
\* device that only successful appends of such payloads have touched
CleanBefore == hist.pure /\ hist.fit /\ FitsRing(w.full)

PowerCut ==
    /\ pc \in {"payload", "erase", "header"}
    /\ hist.nevt < MaxEvents
    /\ pc' = "boot"
    /\ st' = [b \in Backends |-> storage_new]
    /\ res' = Result("powercut", <<>>, TRUE, NoOut)
    /\ hist' = [Failed(hist) EXCEPT !.cut = CleanBefore]
    /\ UNCHANGED <<dev, w>>

\* power is lost inside the header write: only its first k bytes land
TornHeader(k) ==
    /\ pc = "header"
    /\ hist.nevt < MaxEvents
    /\ dev' = [b \in Backends |->
                  flash_write(b, dev[b], w.per[b].slot_addr,
                              SubSeq(slot_to_bytes(w.per[b].slot), 1, k))]
    /\ pc' = "off"
    /\ res' = Result("torn", k, TRUE, NoOut)
    /\ hist' = [Failed(hist) EXCEPT !.torn = k, !.cut = CleanBefore]
    /\ UNCHANGED <<st, w>>

\* the store is dropped and Storage::new is called over the same device
Reboot ==
    /\ pc = "idle"
    /\ pc' = "boot"
    /\ st' = [b \in Backends |-> storage_new]
    /\ res' = Result("none", <<>>, TRUE, NoOut)
    /\ hist' = [hist EXCEPT !.stA = Some(st), !.pure = FALSE]
    /\ UNCHANGED <<dev, w>>

(***************************************************************************)
(* The other public operations; each is one action.  A device error in     *)
(* the k-th device call ends the operation with that error.                *)
(***************************************************************************)
\* Storage::scan; ok = FALSE: the last device read it issues returns an error
Scan(ok) ==
    /\ pc \in {"idle", "boot"}
    /\ LET r == [b \in Backends |-> scan(b, dev[b])]
       IN  IF ok
           THEN /\ st' = [b \in Backends |-> scan_state(st[b], r[b].current)]
                /\ res' = Result("scan", <<>>, TRUE,
                                 [b \in Backends |->
                                     [val |-> r[b].current, acc |-> r[b].acc]])
           ELSE /\ res' = Result("scan", <<>>, FALSE,
                                 [b \in Backends |->
                                     [val |-> None, acc |-> r[b].acc]])
                /\ UNCHANGED st
    /\ pc' = "ret"
    /\ hist' = [hist EXCEPT !.booted = (pc = "boot")]
    /\ UNCHANGED <<dev, w>>

\* Storage::read into a buffer of buflen bytes; ok = FALSE: the last device
\* read it issues returns an error
Read(idx, buflen, ok) ==
    /\ pc = "idle"
    /\ LET r == [b \in Backends |-> read(b, dev[b], idx, buflen)]
       IN  res' = IF ok THEN Result("read", <<idx, buflen>>, TRUE, r)
                  ELSE Result("read", <<idx, buflen>>, FALSE,
                              [b \in Backends |-> [val |-> None, acc |-> r[b].acc]])
    /\ pc' = "ret"
    /\ UNCHANGED <<dev, st, w, hist>>

\* a slip: the slot index is passed to the device as the byte address
EraseBySlot(idx, ok) ==
    /\ pc = "idle"
    /\ ok => hist.nevt < MaxEvents
    /\ res' = Result("erase", idx, ok,
                     [b \in Backends |->
                         [val |-> None, acc |-> <<Access("erase", addr(idx), 1)>>]])
    /\ dev' = IF ok THEN [b \in Backends |-> flash_erase(b, dev[b], idx % SLOT_COUNT)] ELSE dev
    /\ hist' = IF ok THEN Wear(Failed(hist), [b \in Backends |-> {addr(idx)}]) ELSE hist
    /\ pc' = "ret"
    /\ UNCHANGED <<st, w>>

\* Storage::erase
Erase(idx, ok) ==
    /\ pc = "idle"
    /\ ok => hist.nevt < MaxEvents
    /\ res' = Result("erase", idx, ok,
                     [b \in Backends |->
                         [val |-> None, acc |-> <<Access("erase", addr(idx), 1)>>]])
    /\ dev' = IF ok THEN [b \in Backends |-> flash_erase(b, dev[b], addr(idx))] ELSE dev
    /\ hist' = IF ok THEN Wear(Failed(hist), [b \in Backends |-> {addr(idx)}]) ELSE hist
    /\ pc' = "ret"
    /\ UNCHANGED <<st, w>>

\* Storage::erase_all: the fields are reset, then Flash::erase_all(SLOT_COUNT)
\* runs; upto < SLOT_COUNT: the erase of address upto returns an error
EraseAll(upto) ==
    /\ pc = "idle"
    /\ hist.nevt < MaxEvents
    /\ st' = [b \in Backends |-> [prev |-> zero, idx |-> 0]]
    /\ dev' = [b \in Backends |-> flash_erase_all(b, dev[b], upto)]
    /\ res' = Result("erase_all", <<>>, upto = SLOT_COUNT,
                     [b \in Backends |->
                         [val |-> None,
                          acc |-> [i \in 1..Min(upto + 1, SLOT_COUNT) |->
                                      Access("erase", i - 1, 1)]]])
    /\ hist' = Wear([Failed(hist) EXCEPT !.chain = zero, !.exp = None],
                     [b \in Backends |-> 0 .. Min(upto, SLOT_COUNT) - 1])
    /\ pc' = "ret"
    /\ UNCHANGED w

\* the caller has taken the result of the call that returned; after a scan
\* that failed at boot the store is still to be scanned
Return ==
    /\ pc = "ret"
    /\ pc' = IF res.op = "scan" /\ ~res.ok /\ hist.booted THEN "boot" ELSE "idle"
    /\ res' = Result("none", <<>>, TRUE, NoOut)
    /\ hist' = [hist EXCEPT !.booted = FALSE, !.stA = None]
    /\ UNCHANGED <<dev, st, w>>

(***************************************************************************)
(* Specifications.  Spec: the store in normal use (append, scan, read,     *)
(* drop and re-create).  SpecPower adds loss of power, SpecErase the erase *)
(* operations, SpecFail device errors in every operation.                  *)
(***************************************************************************)
AppendOk ==
    \/ \E data \in Payloads : AppendStart(data, TRUE)
    \/ WritePayload(TRUE)
    \/ EraseNext(TRUE)
    \/ WriteHeader(TRUE)

Next ==
    \/ Return
    \/ AppendOk
    \/ Scan(TRUE)
    \/ \E idx \in SlotIdx, buflen \in BufLens : Read(idx, buflen, TRUE)
    \/ Reboot

Spec == Init /\ [][Next]_vars

NextPower ==
    \/ Return
    \/ AppendOk
    \/ Scan(TRUE)
    \/ PowerCut
    \/ \E k \in 1..(HEADER_SIZE - 1) : TornHeader(k)

SpecPower == Init /\ [][NextPower]_vars

NextErase ==
    \/ Return
    \/ AppendOk
    \/ Scan(TRUE)
    \/ \E idx \in SlotIdx : Erase(idx, TRUE)
    \/ EraseAll(SLOT_COUNT)

SpecErase == Init /\ [][NextErase]_vars

NextFail ==
    \/ Return
    \/ \E data \in Payloads, ok \in BOOLEAN : AppendStart(data, ok)
    \/ \E ok \in BOOLEAN : WritePayload(ok)
    \/ \E ok \in BOOLEAN : EraseNext(ok)
    \/ \E ok \in BOOLEAN : WriteHeader(ok)
    \/ \E ok \in BOOLEAN : Scan(ok)
    \/ \E idx \in SlotIdx, buflen \in BufLens, ok \in BOOLEAN : Read(idx, buflen, ok)
    \/ \E idx \in SlotIdx, ok \in BOOLEAN : Erase(idx, ok)
    \/ \E upto \in 0..SLOT_COUNT : EraseAll(upto)

SpecFail == Init /\ [][NextFail]_vars

\* SpecAppend: nothing but appends, each of them step by step
NextAppend ==
    \/ Return
    \/ AppendOk

SpecAppend == Init /\ [][NextAppend]_vars

\* SpecDrop: appends of one-slot and two-slot records, scans, and erases of
\* single slots in between
DropPayloads == {MkData(0), MkData(FIRST_SPACE + 1)}

NextDrop ==
    \/ Return
    \/ \E data \in DropPayloads : AppendStart(data, TRUE)
    \/ WritePayload(TRUE)
    \/ EraseNext(TRUE)
    \/ WriteHeader(TRUE)
    \/ Scan(TRUE)
    \/ \E idx \in SlotIdx : Erase(idx, TRUE)

SpecDrop == Init /\ [][NextDrop]_vars

\* SpecWipe: as SpecDrop, with slot indices beyond the ring passed to erase
NextWipe ==
    \/ Return
    \/ \E data \in DropPayloads : AppendStart(data, TRUE)
    \/ WritePayload(TRUE)
    \/ EraseNext(TRUE)
    \/ WriteHeader(TRUE)
    \/ Scan(TRUE)
    \/ \E idx \in 0..(2 * SLOT_COUNT - 1) : Erase(idx, TRUE)

SpecWipe == Init /\ [][NextWipe]_vars

\* SpecReset: appends and scans around a successful erase_all
NextReset ==
    \/ Return
    \/ AppendOk
    \/ Scan(TRUE)
    \/ EraseAll(SLOT_COUNT)

SpecReset == Init /\ [][NextReset]_vars

\* SpecAccess: every operation that takes a slot index, with indices beyond
\* the ring, and appends up to one byte more than the ring holds
AccessPayloads == DropPayloads \cup {MkData(MAX_PAYLOAD + 1)}

NextAccess ==
    \/ Return
    \/ \E data \in AccessPayloads : AppendStart(data, TRUE)
    \/ WritePayload(TRUE)
    \/ EraseNext(TRUE)
    \/ WriteHeader(TRUE)
    \/ Scan(TRUE)
    \/ \E idx \in 0..(2 * SLOT_COUNT - 1) : Erase(idx, TRUE)
    \/ \E idx \in 0..(2 * SLOT_COUNT - 1), buflen \in BufLens : Read(idx, buflen, TRUE)

SpecAccess == Init /\ [][NextAccess]_vars

\* SpecRetry: appends and scans in which any one device call returns an error,
\* and the store dropped and created again
NextRetry ==
    \/ Return
    \/ \E data \in DropPayloads, ok \in BOOLEAN : AppendStart(data, ok)
    \/ \E ok \in BOOLEAN : WritePayload(ok)
    \/ \E ok \in BOOLEAN : EraseNext(ok)
    \/ \E ok \in BOOLEAN : WriteHeader(ok)
    \/ \E ok \in BOOLEAN : Scan(ok)
    \/ Reboot

SpecRetry == Init /\ [][NextRetry]_vars

\* SpecFrom: a first append that leaves next_idx at any slot of the ring, then
\* an append of any length up to the size of the device
LeadPayloads == {MkData(FIRST_SPACE + k * (SLOT_SIZE - 1)) : k \in 0..(SLOT_COUNT - 1)}

NextFrom ==
    \/ Return
    \/ hist.ndone = 0 /\ \E data \in LeadPayloads : AppendStart(data, TRUE)
    \/ hist.ndone = 1 /\ \E n \in 0..SPACE : AppendStart(MkData(n), TRUE)
    \/ WritePayload(TRUE)
    \/ EraseNext(TRUE)
    \/ WriteHeader(TRUE)

SpecFrom == Init /\ [][NextFrom]_vars

\* every payload length up to the size of the device
SpanPayloads == {MkData(n) : n \in 0..SPACE}

\* one append of any length on the fresh store
NextSpan ==
    \/ Return
    \/ hist.nslots = 0 /\ \E data \in SpanPayloads : AppendStart(data, TRUE)
    \/ WritePayload(TRUE)
    \/ EraseNext(TRUE)
    \/ WriteHeader(TRUE)

SpecSpan == Init /\ [][NextSpan]_vars

(***************************************************************************)
(* The pure functions of chksum.rs and lib.rs, called on their own.        *)
(***************************************************************************)
\* longest data sequence hashed, beside the vector of test_chksum
MaxHashLen == 3

\* checksum values around the validity boundary, and the value of test_chksum
ChkValues ==
    {zero, U32(32767, 65535), U32(32768, 0), U32(65535, 65535), U32(9857, 48581)}

HashBytes == {0, 104, 255}

\* b"hello world" (chksum.rs 76)
HelloWorld == <<104, 101, 108, 108, 111, 32, 119, 111, 114, 108, 100>>

HashData == UNION {[1..n -> HashBytes] : n \in 0..MaxHashLen} \cup {HelloWorld}

\* Chksum::hash(prev, data)
HashCall(prev, data) ==
    /\ pc = "idle"
    /\ res' = Result("hash", <<prev, data>>, TRUE, hash(prev, data))
    /\ pc' = "ret"
    /\ UNCHANGED <<dev, st, w, hist>>

\* Chksum::is_valid on the checksum c
IsValidCall(c) ==
    /\ pc = "idle"
    /\ res' = Result("is_valid", c, TRUE, chksum_is_valid(c))
    /\ pc' = "ret"
    /\ UNCHANGED <<dev, st, w, hist>>

\* length fields: small, above 16 bits, all ones
LenValues == {zero, U32(0, 5), U32(4660, 22136), U32(65535, 65535)}

\* b"hello" (lib.rs 215)
Hello == <<104, 101, 108, 108, 111>>

\* Slot::to_bytes of the header s, and Slot::from_bytes of the result
ToBytesCall(s) ==
    /\ pc = "idle"
    /\ res' = Result("to_bytes", s, TRUE,
                     [bytes |-> slot_to_bytes(s),
                      back  |-> slot_from_bytes(s.idx, slot_to_bytes(s))])
    /\ pc' = "ret"
    /\ UNCHANGED <<dev, st, w, hist>>

\* Slot::create(idx, prev, data), and Slot::to_bytes of the result
CreateCall(idx, prev, data) ==
    /\ pc = "idle"
    /\ res' = Result("create", <<idx, prev, data>>, TRUE,
                     [slot  |-> create(idx, prev, data),
                      bytes |-> slot_to_bytes(create(idx, prev, data))])
    /\ pc' = "ret"
    /\ UNCHANGED <<dev, st, w, hist>>

NextPure ==
    \/ Return
    \/ \E prev \in ChkValues, data \in HashData : HashCall(prev, data)
    \/ \E c \in ChkValues : IsValidCall(c)
    \/ \E idx \in SlotIdx, c \in ChkValues, l \in LenValues, p \in ChkValues :
           ToBytesCall(Slot(idx, c, l, p))
    \/ \E idx \in SlotIdx, prev \in ChkValues, data \in HashData \cup {Hello} :
           CreateCall(idx, prev, data)

SpecPure == Init /\ [][NextPure]_vars

\* SpecUsed: Slot::used_bytes over slot sizes from the smallest that holds a
\* header and one payload byte, and payload lengths beyond two slots
MaxSlack == 4

SlotSizes == (HEADER_SIZE + 1)..(HEADER_SIZE + MaxSlack)

\* Slot::used_bytes::<slot_size> on a slot with payload length len
UsedBytesCall(slot_size, len) ==
    /\ pc = "idle"
    /\ res' = Result("used_bytes", <<slot_size, len>>, TRUE, used_bytes_in(slot_size, len))
    /\ pc' = "ret"
    /\ UNCHANGED <<dev, st, w, hist>>

NextUsed ==
    \/ Return
    \/ \E s \in SlotSizes : \E len \in 0..(2 * s + MaxSlack) : UsedBytesCall(s, len)

SpecUsed == Init /\ [][NextUsed]_vars

(***************************************************************************)
(* Properties.                                                             *)
(***************************************************************************)
\* the store is between two calls (no write is in progress, power is on)
AtRest == pc \in {"idle", "ret", "boot"}

\* the header found by a scan of the device of backend b as it is now
Found(b) == scan(b, dev[b]).current

\* header s carries the checksum, length and predecessor of the expected record e
SameHeader(s, e) ==
    /\ s.chksum = e.chksum
    /\ s.len = U32FromNat(e.len)
    /\ s.prev = e.prev

\* a scan returns the header of the last appended payload: hist.exp holds its
\* length, the chksum of the append before it (prev) and hash(prev, payload)
ChainSound(b) ==
    LET found == Found(b)
    IN  found.some /\ SameHeader(found.v, hist.exp.v)

\* C2 as stated: after any sequence of successful appends on a store over a
\* fresh device, scan returns the header of the most recently appended payload,
\* with chksum = hash(prev, payload) and prev the chksum of the append before.
C2_AnyPayload ==
    \A b \in Backends :
        (hist.pure /\ AtRest /\ hist.exp.some) => ChainSound(b)

\* C2 amended: the same, for appends of payloads that fit the ring
\* (at most MAX_PAYLOAD bytes each).
C2_ChainSoundness ==
    \A b \in Backends :
        (hist.fit /\ AtRest /\ hist.exp.some) => ChainSound(b)

C2_Witness ==
    /\ hist.pure /\ hist.fit /\ hist.ndone >= 2
    /\ pc = "ret" /\ res.op = "scan" /\ res.ok
    /\ \A b \in Backends : res.out[b].val.some /\ res.out[b].val.v.prev # zero

\* append(D); scan(); read(header.idx, buf) gives back exactly D, for every
\* buffer of the inputs that can hold D
RoundTrip(b) ==
    LET found == Found(b)
    IN  /\ found.some
        /\ found.v.len = U32FromNat(hist.exp.v.len)
        /\ \A buflen \in BufLens :
               buflen >= hist.exp.v.len =>
                   LET r == read(b, dev[b], found.v.idx, buflen).val
                   IN  r.some /\ r.v = hist.exp.v.data

\* C3 as stated: for every payload D that fits the ring and every store state
\* reachable by successful appends, append(D); scan(); read(header.idx, buf)
\* returns a slice equal to D.
C3_AnyHistory ==
    \A b \in Backends :
        (hist.pure /\ AtRest /\ hist.exp.some /\ FitsRing(hist.exp.v.data))
            => RoundTrip(b)

\* C3 amended: the round trip holds for every payload that fits the ring, from
\* every store state reachable by successful appends of payloads that fit the ring.
C3_RoundTrip ==
    \A b \in Backends :
        (hist.fit /\ AtRest /\ hist.exp.some) => RoundTrip(b)

C3_Witness ==
    /\ hist.pure /\ hist.fit /\ hist.ndone >= 2
    /\ pc = "ret" /\ res.op = "read" /\ res.ok
    /\ hist.exp.v.len > FIRST_SPACE
    /\ \A b \in Backends :
           /\ Found(b).some /\ res.arg[1] = Found(b).v.idx
           /\ res.out[b].val = Some(hist.exp.v.data)

\* C7 as stated: after any sequence of successful appends by a store A, a fresh
\* Storage B over the same device that calls scan() has the same
\* (next_idx, prev) as A.
C7_AnyPayload ==
    \A b \in Backends :
        (pc = "ret" /\ res.op = "scan" /\ res.ok /\ hist.booted /\ hist.stA.some)
            => st[b] = hist.stA.v[b]

\* C7 amended: the same, when every appended payload fits the ring.
C7_ResumeAfterScan ==
    \A b \in Backends :
        (hist.fit /\ pc = "ret" /\ res.op = "scan" /\ res.ok /\ hist.booted
         /\ hist.stA.some)
            => st[b] = hist.stA.v[b]

C7_Witness ==
    /\ hist.fit /\ hist.ndone >= 2
    /\ pc = "ret" /\ res.op = "scan" /\ res.ok /\ hist.booted /\ hist.stA.some
    /\ \A b \in Backends : st[b] = hist.stA.v[b] /\ st[b].prev # zero /\ st[b].idx # 0

\* C8: with K > SLOT_COUNT successful single-slot appends, the K-th record is
\* in slot (K-1) mod SLOT_COUNT, scan returns it, its payload reads back, and
\* next_idx afterwards is K mod SLOT_COUNT.
C8_RingWrap ==
    \A b \in Backends :
        (hist.oneslot /\ hist.ndone > SLOT_COUNT /\ AtRest)
            => /\ ChainSound(b)
               /\ Found(b).v.idx = (hist.ndone - 1) % SLOT_COUNT
               /\ RoundTrip(b)
               /\ scan_state(storage_new, Found(b)).idx = hist.ndone % SLOT_COUNT
               /\ (pc # "boot" => st[b].idx = hist.ndone % SLOT_COUNT)

C8_Witness ==
    /\ hist.oneslot /\ hist.ndone = SLOT_COUNT + 1
    /\ pc = "ret" /\ res.op = "scan" /\ res.ok
    /\ \A b \in Backends : res.out[b].val.some /\ res.out[b].val.v.idx = 0
                           /\ st[b].idx = 1

\* the header stored at slot idx of the device of backend b
StoredHeader(b, idx) == slot_from_bytes(idx, flash_read(b, dev[b], addr(idx), HEADER_SIZE))

\* a successful read(idx, buf) has just returned
ReadReturned == pc = "ret" /\ res.op = "read" /\ res.ok

\* no fit exactly when the buffer is smaller than the stored length, then only
\* the header was read; otherwise a slice of exactly `length` bytes
NoFitExact(b) ==
    LET hdr    == StoredHeader(b, res.arg[1])
        buflen == res.arg[2]
        small  == hdr.len.hi > 0 \/ hdr.len.lo > buflen
        out    == res.out[b]
    IN  /\ ~out.val.some <=> small
        /\ small => out.acc = <<Access("read", addr(res.arg[1]), HEADER_SIZE)>>
        /\ ~small => Len(out.val.v) = hdr.len.lo

\* C9: read(idx, buf) returns no-fit exactly when buf.len() is smaller than the
\* length stored in the header at slot idx, reading nothing but the header in
\* that case, and otherwise returns exactly `length` bytes; either way the
\* device contents and the store's (next_idx, prev) are unchanged.
C9_ReadNoFit ==
    /\ [](ReadReturned => \A b \in Backends : NoFitExact(b))
    /\ [][(pc = "idle" /\ res'.op = "read") => (dev' = dev /\ st' = st)]_vars

C9_Witness ==
    /\ ReadReturned /\ hist.ndone >= 1
    /\ \A b \in Backends :
           /\ ~res.out[b].val.some
           /\ StoredHeader(b, res.arg[1]).len = U32FromNat(res.arg[2] + 1)

\* slot idx holds the header of a record on backend b
RecordAt(b, idx) == slot_is_valid(StoredHeader(b, idx))

\* both backends gave the same result to the call that has just returned
SameResult == res.out["byte"].val = res.out["sector"].val

\* C10 as stated: the same sequence of append, scan and read gives identical
\* results on the byte-erase and the sector-erase device at every step (scan
\* headers, read payloads, store state), and every byte the core writes lands
\* in a location that is erased on the sector device.
C10_AnyUse ==
    /\ st["byte"] = st["sector"]
    /\ ~hist.clobber
    /\ (pc = "ret" /\ res.ok /\ res.op \in {"scan", "read"}) => SameResult

\* C10 amended: the same, when every appended payload fits the ring and read
\* is called on the first slot of a record (a slot holding a valid header).
C10_BackendsAgree ==
    hist.fit =>
        /\ st["byte"] = st["sector"]
        /\ ~hist.clobber
        /\ (pc = "ret" /\ res.ok /\ res.op = "scan") => SameResult
        /\ (ReadReturned /\ \E b \in Backends : RecordAt(b, res.arg[1])) => SameResult

C10_Witness ==
    /\ hist.fit /\ hist.ndone > SLOT_COUNT /\ ReadReturned
    /\ dev["byte"] # [a \in 0..(SPACE - 1) |-> dev["sector"][a \div SLOT_SIZE][a % SLOT_SIZE]]
    /\ \A b \in Backends : RecordAt(b, res.arg[1]) /\ res.out[b].val.some
    /\ SameResult

\* a fresh Storage has just scanned the device that a loss of power left
\* behind, part-way through an append to a state reached by successful appends
ScannedAfterCut ==
    pc = "ret" /\ res.op = "scan" /\ res.ok /\ hist.booted /\ hist.cut

\* C1: cut an append after any prefix of its flash operations, on a device
\* whose scan returned record S; a scan by a fresh Storage then returns the
\* header of S or the complete header of the new record, never another header
\* and never none, whatever the payload size and ring position.
C1_PowerFailSafety ==
    \A b \in Backends :
        (ScannedAfterCut /\ w.per[b].tip.some)
            => res.out[b].val \in {w.per[b].tip, Some(w.per[b].slot)}

\* the header write of an append was cut after the chksum bytes and before
\* the first prev byte landed
TornBeforePrev ==
    /\ pc = "off" /\ hist.cut
    /\ hist.torn >= CHKSUM_SIZE /\ hist.torn <= CHKSUM_SIZE + LENGTH_SIZE

\* C4: when the header write lands only partially (chksum bytes written, prev
\* bytes not), the header in that slot reads prev = 0xFFFFFFFF, fails is_valid,
\* and scan does not return that slot, on the sector-erase device and on the
\* byte-erase device alike.
C4_TornCommitRejected ==
    \A b \in Backends :
        TornBeforePrev =>
            LET h == StoredHeader(b, w.per[b].slot.idx)
            IN  /\ h.prev = U32(65535, 65535)
                /\ ~slot_is_valid(h)
                /\ Found(b).some => Found(b).v.idx # h.idx

\* the first byte of slot idx reads as erased (its most significant bit is 1)
SlotErased(b, idx) == AndByte(flash_read(b, dev[b], addr(idx), 1)[1], BYTE_MASK) # 0

\* C5: after Storage::erase_all() through the default Flash::erase_all, on a
\* device holding records in slots other than slot 0, every slot reads as
\* erased, scan returns none, and the store state is (next_idx = 0,
\* prev = zero), so that the next append writes its header at slot 0.
C5_EraseAll ==
    \A b \in Backends :
        (pc = "ret" /\ res.op = "erase_all" /\ res.ok)
            => /\ \A idx \in SlotIdx : SlotErased(b, idx)
               /\ ~Found(b).some
               /\ st[b] = [prev |-> zero, idx |-> 0]
               /\ scan_state(st[b], Found(b)) = [prev |-> zero, idx |-> 0]

\* C6: when a device read, write or erase returns an error inside scan, read,
\* erase, erase_all, write or append, the operation returns the error and the
\* store's (next_idx, prev) are what they were before the call.
C6_NoPartialUpdate ==
    [][(res'.op \in {"scan", "read", "erase", "erase_all", "append"} /\ ~res'.ok)
           => st' = st]_vars

\* the device calls of the given kind in a log of accesses
Calls(acc, kind) == {i \in 1..Len(acc) : acc[i].kind = kind}

\* the bytes moved by the calls of the given kind in a log of accesses
RECURSIVE Bytes(_, _, _)
Bytes(acc, kind, i) ==
    IF i > Len(acc) THEN 0
    ELSE (IF acc[i].kind = kind THEN acc[i].n ELSE 0) + Bytes(acc, kind, i + 1)

\* an append has just returned successfully
AppendReturned == pc = "ret" /\ res.op = "append" /\ res.ok

\* C11: for every payload length L in [0, SLOT_SIZE * SLOT_COUNT], the write
\* issues HEADER_SIZE + L written bytes and ceil(used_bytes(L) / SLOT_SIZE)
\* erase calls, and used_bytes(L) is HEADER_SIZE + L plus one reserved byte
\* for each continuation slot the write erases.
C11_SpanningArithmetic ==
    \A b \in Backends :
        AppendReturned =>
            LET acc    == res.out[b].acc
                L      == hist.exp.v.len
                erases == Cardinality(Calls(acc, "erase"))
            IN  /\ Bytes(acc, "write", 1) = HEADER_SIZE + L
                /\ erases = div_ceil(used_bytes(L), SLOT_SIZE)
                /\ used_bytes(L) = HEADER_SIZE + L + (erases - 1)

C11_Witness ==
    /\ AppendReturned
    /\ hist.exp.v.len = SLOT_SIZE * SLOT_COUNT
    /\ \A b \in Backends : Cardinality(Calls(res.out[b].acc, "erase")) > SLOT_COUNT

\* C12: hash(prev, data) is the 32-bit stream hash of the 4 big-endian bytes of
\* prev followed by data, reduced with & 0x7FFFFFFF, so its most significant
\* bit is 0 and is_valid() holds; is_valid() is true exactly for values below
\* 2^31, and zero() is valid.
C12_ValidityMarker ==
    /\ chksum_is_valid(zero)
    /\ (pc = "ret" /\ res.op = "hash") =>
           LET stream == djb2_hash(u32_to_be_bytes(res.arg[1]) \o res.arg[2])
           IN  /\ res.out = U32(stream.hi % 32768, stream.lo)
               /\ res.out.hi < 32768
               /\ chksum_is_valid(res.out)
    /\ (pc = "ret" /\ res.op = "is_valid") => (res.out <=> res.arg.hi < 32768)

C12_Witness ==
    /\ pc = "ret" /\ res.op = "hash"
    /\ res.arg = <<zero, HelloWorld>>
    /\ res.out = U32(9857, 48581)
    /\ djb2_hash(u32_to_be_bytes(res.arg[1]) \o res.arg[2]).hi >= 32768

\* the four bytes at bytes[from..from+3] are the big-endian bytes of x
BigEndianAt(bytes, from, x) ==
    /\ bytes[from] = x.hi \div 256
    /\ bytes[from + 1] = x.hi % 256
    /\ bytes[from + 2] = x.lo \div 256
    /\ bytes[from + 3] = x.lo % 256

\* C13: Slot::from_bytes(s.idx, s.to_bytes()) == s; to_bytes lays out exactly
\* 12 bytes, chksum, length and prev (4 bytes each, big-endian) in that order;
\* the high bit of byte 0 is 0 exactly when s.chksum is valid, so a header
\* made by Slot::create never has the erased marker in its first byte.
C13_HeaderRoundTrip ==
    /\ (pc = "ret" /\ res.op = "to_bytes") =>
           /\ res.out.back = res.arg
           /\ Len(res.out.bytes) = 12
           /\ BigEndianAt(res.out.bytes, 1, res.arg.chksum)
           /\ BigEndianAt(res.out.bytes, 5, res.arg.len)
           /\ BigEndianAt(res.out.bytes, 9, res.arg.prev)
           /\ res.out.bytes[1] < 128 <=> chksum_is_valid(res.arg.chksum)
    /\ (pc = "ret" /\ res.op = "create") => res.out.bytes[1] < 128

C13_Witness ==
    /\ pc = "ret" /\ res.op = "create"
    /\ res.arg = <<0, zero, Hello>>
    /\ res.out.bytes = <<116, 186, 120, 103, 0, 0, 0, 5, 0, 0, 0, 0>>

\* the header of slot idx on backend b when scan_slot accepts it (first byte
\* written, both checksums valid)
ValidAt(b, idx) == scan_slot(b, dev[b], idx).slot.some

\* the slots of backend b holding a valid header that no other valid header
\* on the device names as its predecessor
Tips(b) ==
    {i \in SlotIdx :
        /\ ValidAt(b, i)
        /\ \A j \in SlotIdx \ {i} :
               ValidAt(b, j) => StoredHeader(b, j).prev # StoredHeader(b, i).chksum}

\* at most one tip, and it is the record committed last
UniqueTip(b) ==
    /\ Cardinality(Tips(b)) <= 1
    /\ \A i \in Tips(b) : hist.exp.some /\ SameHeader(StoredHeader(b, i), hist.exp.v)

\* C14 as stated: in every device state reachable by successful appends, and
\* in every intermediate state of an append, at most one slot holds a valid
\* header that no other valid header names as its prev, and when one exists it
\* is the most recently committed record.
C14_AnyPayload == \A b \in Backends : UniqueTip(b)

\* C14 amended: the same, when every appended payload fits the ring.
C14_UniqueTip ==
    \A b \in Backends :
        (hist.fit /\ (w # NoWrite => FitsRing(w.full))) => UniqueTip(b)

C14_Witness ==
    /\ hist.fit /\ hist.ndone > SLOT_COUNT /\ pc = "header" /\ FitsRing(w.full)
    /\ \A b \in Backends :
           /\ Cardinality({i \in SlotIdx : ValidAt(b, i)}) >= 2
           /\ Cardinality(Tips(b)) = 1

\* a buffer that holds every payload driven through the store
BigBuf == MAX_PAYLOAD + 1

\* the first byte of slot idx has its most significant bit clear
Committed(b, idx) == flash_read(b, dev[b], addr(idx), 1)[1] < BYTE_MASK

\* slot idx holds a header with both checksums valid whose payload, as read
\* returns it, hashes to the stored chksum
HeaderIntact(b, idx) ==
    LET hdr == StoredHeader(b, idx)
        got == read(b, dev[b], idx, BigBuf).val
    IN  /\ chksum_is_valid(hdr.chksum)
        /\ chksum_is_valid(hdr.prev)
        /\ got.some
        /\ hash(hdr.prev, got.v) = hdr.chksum

\* C15 as stated: after successful appends of any payloads, and at every flash
\* operation of an append before its header write, every slot whose first byte
\* has MSB 0 holds an intact header.
C15_AnyPayload ==
    \A b \in Backends : \A i \in SlotIdx : Committed(b, i) => HeaderIntact(b, i)

\* C15 amended: the same, when every appended payload fits the ring.
C15_HeadersIntact ==
    (hist.fit /\ (w # NoWrite => FitsRing(w.full))) =>
        \A b \in Backends : \A i \in SlotIdx : Committed(b, i) => HeaderIntact(b, i)

\* a multi-slot append over a full ring is in progress, after it has erased a
\* continuation slot, while an older header is still in place
C15_Witness ==
    /\ hist.fit /\ hist.ndone >= SLOT_COUNT /\ pc = "payload"
    /\ FitsRing(w.full) /\ Len(w.data) < Len(w.full)
    /\ \A b \in Backends : \E i \in SlotIdx : Committed(b, i) /\ HeaderIntact(b, i)

\* only one-slot appends have run since the store was created over a new device
OneSlotSoFar ==
    /\ hist.pure /\ hist.oneslot
    /\ w # NoWrite => Len(w.full) <= FIRST_SPACE

\* the device calls of a one-slot write of n bytes to slot i
OneSlotCalls(i, n) ==
    <<Access("erase", addr(i), 1),
      Access("write", addr(i) + HEADER_SIZE, n),
      Access("write", addr(i), HEADER_SIZE)>>

\* the erase counts of any two slots differ by at most one
WearLevel(b) ==
    \A i, j \in SlotIdx : hist.wear[b][i] - hist.wear[b][j] <= 1

\* C16: an append in progress started at the store's next_idx, with the erase
\* of that slot, and leaves next_idx behind the last slot it erased; in a sequence of
\* one-slot appends from a fresh store the i-th append (0-based) issues exactly
\* the erase and the two writes of slot i mod SLOT_COUNT, and at every moment
\* the per-slot erase counts differ by at most one.
C16_WearLeveling ==
    \A b \in Backends :
        /\ pc \in {"payload", "erase", "header"} =>
               /\ w.per[b].slot_addr = addr(st[b].idx)
               /\ res.out[b].acc[1] = Access("erase", addr(st[b].idx), 1)
        /\ AppendReturned =>
               st[b].idx = (res.out[b].acc[1].addr \div SLOT_SIZE
                               + Cardinality(Calls(res.out[b].acc, "erase"))) % SLOT_COUNT
        /\ OneSlotSoFar =>
               /\ WearLevel(b)
               /\ AppendReturned =>
                      res.out[b].acc =
                          OneSlotCalls((hist.ndone - 1) % SLOT_COUNT, hist.exp.v.len)

C16_Witness ==
    /\ OneSlotSoFar /\ AppendReturned /\ hist.ndone = SLOT_COUNT + 2
    /\ \A b \in Backends :
           /\ hist.wear[b][0] = 2 /\ hist.wear[b][1] = 2
           /\ hist.wear[b][SLOT_COUNT - 1] = 1

\* the first byte of the slot at address a reads as erased (MSB 1)
HeadErased(b, a) == flash_read(b, dev[b], a, 1)[1] >= BYTE_MASK

\* the log of a write: the erase of the first slot comes first, and no write
\* to the first byte of that slot before position upto
ErasedFirst(acc, upto) ==
    /\ acc[1] = Access("erase", acc[1].addr, 1)
    /\ \A i \in 2..upto : acc[i].kind = "write" => acc[i].addr # acc[1].addr

\* C17: in every write(idx, prev, data) the first flash operation is the erase
\* of the first slot and the write of the 12-byte header at addr(idx) is the
\* last; in every state between the two the first byte of the first slot has
\* MSB 1 and a scan of the device does not return the slot being written.
C17_CommitOrdering ==
    \A b \in Backends :
        LET acc == res.out[b].acc
        IN  /\ pc \in {"payload", "erase", "header"} =>
                   /\ acc[1].addr = w.per[b].slot_addr
                   /\ ErasedFirst(acc, Len(acc))
                   /\ HeadErased(b, w.per[b].slot_addr)
                   /\ Found(b).some => addr(Found(b).v.idx) # w.per[b].slot_addr
            /\ AppendReturned =>
                   /\ ErasedFirst(acc, Len(acc) - 1)
                   /\ acc[Len(acc)] = Access("write", acc[1].addr, HEADER_SIZE)

\* a multi-slot write over a full ring is about to commit, and a scan finds
\* an older record
C17_Witness ==
    /\ pc = "header" /\ hist.ndone >= SLOT_COUNT /\ Len(w.full) > FIRST_SPACE
    /\ \A b \in Backends : Found(b).some /\ HeadErased(b, w.per[b].slot_addr)

\* the slots occupied by the record with header s (every slot, when the
\* stored length exceeds the device)
SlotsOf(s) ==
    IF U32Exceeds(s.len, SPACE) THEN SlotIdx
    ELSE {(s.idx + k) % SLOT_COUNT :
             k \in 0..(div_ceil(used_bytes(U32ToNat(s.len)), SLOT_SIZE) - 1)}

\* C18: during an append to a device that successful appends have written,
\* from its first flash operation until the header write, no erase and no
\* write touches a slot of the record that was the latest when the append
\* began, and that record is still the one a scan finds, and reads in full.
C18_TipUntouched ==
    \A b \in Backends :
        (/\ pc \in {"payload", "erase", "header"}
         /\ hist.pure /\ hist.fit /\ FitsRing(w.full)
         /\ w.per[b].tip.some)
            => LET tip == w.per[b].tip.v
                   acc == res.out[b].acc
               IN  /\ \A i \in 1..Len(acc) :
                          (acc[i].addr \div SLOT_SIZE) \notin SlotsOf(tip)
                   /\ Found(b) = Some(tip)
                   /\ HeaderIntact(b, tip.idx)

\* a scan has just returned without a device error
ScanReturned == pc = "ret" /\ res.op = "scan" /\ res.ok

\* C19: a scan of a device on which no slot holds a valid header returns none
\* and leaves the store's (next_idx, prev) as they were; a scan that finds a
\* record sets next_idx = found.next_slot() and prev = found.chksum; either
\* way the device is unchanged.
C19_ScanState ==
    [][(pc \in {"idle", "boot"} /\ ScanReturned') =>
          /\ dev' = dev
          /\ \A b \in Backends :
                 LET found == res'.out[b].val
                 IN  /\ (\A i \in SlotIdx : ~ValidAt(b, i)) => ~found.some
                     /\ ~found.some => st'[b] = st[b]
                     /\ found.some =>
                            st'[b] = [prev |-> found.v.chksum,
                                      idx  |-> next_slot(found.v)]]_vars

\* a scan found nothing on a device whose only record was erased, and the
\* store still points behind that record
C19_Witness ==
    /\ ScanReturned /\ hist.ndone >= 1
    /\ \A b \in Backends :
           /\ ~res.out[b].val.some
           /\ \A i \in SlotIdx : ~ValidAt(b, i)
           /\ st[b] # storage_new

\* the header at slot idx is valid: first byte MSB 0 and both checksums valid
ValidHeader(b, idx) ==
    /\ Committed(b, idx)
    /\ chksum_is_valid(StoredHeader(b, idx).chksum)
    /\ chksum_is_valid(StoredHeader(b, idx).prev)

\* the candidate after slots 0..upto-1 of a left-to-right pass: the first
\* valid header, replaced by a later valid header exactly when that header's
\* prev is the candidate's chksum
RECURSIVE Candidate(_, _)
Candidate(b, upto) ==
    IF upto = 0 THEN None
    ELSE LET before == Candidate(b, upto - 1)
             here   == StoredHeader(b, upto - 1)
         IN  IF ~ValidHeader(b, upto - 1) THEN before
             ELSE IF ~before.some THEN Some(here)
             ELSE IF here.prev = before.v.chksum THEN Some(here)
             ELSE before

\* no valid header on the device names another valid header as its predecessor
Unlinked(b) ==
    \A i, j \in SlotIdx :
        (i # j /\ ValidHeader(b, i) /\ ValidHeader(b, j))
            => StoredHeader(b, j).prev # StoredHeader(b, i).chksum

\* C20: the result of a scan is the candidate left by a single left-to-right
\* pass over slots 0..SLOT_COUNT-1; among valid headers none of which updates
\* another, the one at the lowest slot index is returned.
C20_SelectionRule ==
    \A b \in Backends :
        /\ Found(b) = Candidate(b, SLOT_COUNT)
        /\ ScanReturned => res.out[b].val = Candidate(b, SLOT_COUNT)
        /\ (Unlinked(b) /\ Found(b).some) =>
               \A i \in SlotIdx : ValidHeader(b, i) => Found(b).v.idx <= i

\* a scan returned the record at the lowest slot although a later record sits
\* behind an erased slot
C20_Witness ==
    /\ ScanReturned
    /\ \A b \in Backends :
           /\ Cardinality({i \in SlotIdx : ValidHeader(b, i)}) >= 2
           /\ Unlinked(b)
           /\ res.out[b].val.some
           /\ ~SameHeader(res.out[b].val.v, hist.exp.v)

\* the slots whose first byte has MSB 0
CommittedSlots(b) == {i \in SlotIdx : Committed(b, i)}

\* the log of a scan: reads only, one single-byte read at the start of every
\* slot, and one read of the other HEADER_SIZE - 1 bytes for each slot whose
\* first byte has MSB 0
ScanBudget(b, acc) ==
    /\ \A k \in 1..Len(acc) : acc[k].kind = "read"
    /\ \A i \in SlotIdx :
           Cardinality({k \in 1..Len(acc) : acc[k] = Access("read", addr(i), 1)}) = 1
    /\ \A i \in SlotIdx :
           Cardinality({k \in 1..Len(acc) :
                           acc[k] = Access("read", addr(i) + 1, HEADER_SIZE - 1)})
               = IF i \in CommittedSlots(b) THEN 1 ELSE 0
    /\ Len(acc) = SLOT_COUNT + Cardinality(CommittedSlots(b))
    /\ Bytes(acc, "read", 1)
           = SLOT_COUNT + (HEADER_SIZE - 1) * Cardinality(CommittedSlots(b))

\* C21: a scan reads SLOT_COUNT single bytes, one per slot, and HEADER_SIZE - 1
\* more bytes for each slot whose first byte has MSB 0, SLOT_COUNT + 11 * c
\* bytes in all; it issues no write and no erase and leaves the device as it
\* was.
C21_ScanBudget ==
    /\ [](ScanReturned => \A b \in Backends : ScanBudget(b, res.out[b].acc))
    /\ [][ScanReturned' => dev' = dev]_vars

\* a scan of a device with two records and an erased slot has returned
C21_Witness ==
    /\ ScanReturned /\ hist.ndone >= 2
    /\ \A b \in Backends :
           /\ Cardinality(CommittedSlots(b)) = 2
           /\ Bytes(res.out[b].acc, "read", 1) = SLOT_COUNT + 2 * (HEADER_SIZE - 1)

\* the slot of the last payload write in the log of a completed write
LastWritten(acc) == acc[Len(acc) - 1].addr \div SLOT_SIZE

\* C22: the header write of append(data), with |data| = L, from the store
\* state (i, p) leaves the store at
\* ((i + ceil(used_bytes(L) / SLOT_SIZE)) mod SLOT_COUNT, hash(p, data)); that
\* index is Slot{i, L}.next_slot() and is one past the last slot written.
C22_NextSlotAgreement ==
    [][(pc = "header" /\ AppendReturned') =>
          \A b \in Backends :
              LET L == Len(w.full)
                  i == st[b].idx
              IN  /\ st'[b].idx = (i + div_ceil(used_bytes(L), SLOT_SIZE)) % SLOT_COUNT
                  /\ st'[b].idx = next_slot([idx |-> i, len |-> U32FromNat(L)])
                  /\ st'[b].idx = (LastWritten(res'.out[b].acc) + 1) % SLOT_COUNT
                  /\ st'[b].prev = hash(st[b].prev, w.full)]_vars

\* an append that began at the last slot of the ring and filled a
\* continuation slot to its last byte has returned
C22_Witness ==
    /\ AppendReturned /\ hist.ndone = 2
    /\ hist.exp.v.len = FIRST_SPACE + (SLOT_SIZE - 1)
    /\ \A b \in Backends :
           /\ res.out[b].acc[1].addr = addr(SLOT_COUNT - 1)
           /\ st[b].idx = 1

\* Slot::used_bytes has just returned
UsedBytesReturned == pc = "ret" /\ res.op = "used_bytes"

\* HEADER_SIZE + L + max(0, ceil((L - (s - HEADER_SIZE)) / (s - 1)))
ClosedForm(s, L) ==
    HEADER_SIZE + L +
        (IF L <= s - HEADER_SIZE THEN 0
         ELSE ((L - (s - HEADER_SIZE)) + (s - 1) - 1) \div (s - 1))

\* used_bytes equals the closed form, with the values at the named lengths
\* except the one at L = 2 * SLOT_SIZE
ClosedFormHolds ==
    LET s == res.arg[1]
        L == res.arg[2]
    IN  /\ res.out = ClosedForm(s, L)
        /\ L <= s - HEADER_SIZE => res.out = HEADER_SIZE + L
        /\ L = s - HEADER_SIZE => res.out = s /\ div_ceil(res.out, s) = 1
        /\ L = s => res.out = HEADER_SIZE + s + 1

\* C23 as stated: for every payload length L and every SLOT_SIZE > HEADER_SIZE
\* used_bytes equals the closed form, which is HEADER_SIZE + L up to
\* L = SLOT_SIZE - HEADER_SIZE, HEADER_SIZE + SLOT_SIZE + 1 at L = SLOT_SIZE
\* and HEADER_SIZE + 2 * SLOT_SIZE + 2 at L = 2 * SLOT_SIZE.
C23_AnySlotSize ==
    UsedBytesReturned =>
        /\ ClosedFormHolds
        /\ res.arg[2] = 2 * res.arg[1] => res.out = HEADER_SIZE + 2 * res.arg[1] + 2

\* C23 amended: the value at L = 2 * SLOT_SIZE is claimed for
\* SLOT_SIZE >= HEADER_SIZE + 2 only.
C23_ClosedForm ==
    UsedBytesReturned =>
        /\ ClosedFormHolds
        /\ (res.arg[2] = 2 * res.arg[1] /\ res.arg[1] >= HEADER_SIZE + 2)
               => res.out = HEADER_SIZE + 2 * res.arg[1] + 2

C23_Witness ==
    /\ UsedBytesReturned
    /\ res.arg[1] = HEADER_SIZE + 2 /\ res.arg[2] = 2 * res.arg[1]
    /\ res.out = HEADER_SIZE + 2 * res.arg[1] + 2

\* the continuation slots of the record with header s: the slots it occupies
\* other than its first
ContinuationSlots(s) == SlotsOf(s) \ {s.idx}

\* the calls of a write that touch slot j leave its first byte alone: an
\* erase of the slot, and payload written to bytes [1, SLOT_SIZE) only
PayloadBehindMarker(acc, j) ==
    \A k \in 1..Len(acc) :
        (acc[k].kind = "write" /\ acc[k].addr \div SLOT_SIZE = j) =>
            /\ acc[k].addr >= addr(j) + 1
            /\ acc[k].addr + acc[k].n <= addr(j) + SLOT_SIZE

\* scan does not return a continuation slot of a record whose header is on
\* the device
NoContinuationFound(b) ==
    LET found == Found(b)
    IN  found.some =>
            \A i \in SlotIdx \ {found.v.idx} :
                ValidHeader(b, i) =>
                    found.v.idx \notin ContinuationSlots(StoredHeader(b, i))

\* after a completed write each continuation slot of the record has first
\* byte 0xFF and payload in bytes [1, SLOT_SIZE) only
MarkerKept(b) ==
    AppendReturned =>
        \A j \in ContinuationSlots(StoredHeader(b, res.out[b].acc[1].addr \div SLOT_SIZE)) :
            /\ flash_read(b, dev[b], addr(j), 1)[1] = Erased
            /\ PayloadBehindMarker(res.out[b].acc, j)

\* C24 as stated: after every completed write each continuation slot of the
\* record has first byte 0xFF and payload in bytes [1, SLOT_SIZE) only; in
\* every state reachable by appends scan never returns a continuation slot of
\* a record whose header is on the device, on either backend.
C24_AnyPayload ==
    \A b \in Backends : MarkerKept(b) /\ NoContinuationFound(b)

\* C24 amended: the scan part holds when every appended payload fits the ring.
C24_ContinuationMarker ==
    \A b \in Backends :
        /\ MarkerKept(b)
        /\ (hist.fit /\ (w # NoWrite => FitsRing(w.full))) => NoContinuationFound(b)

\* a record that fills the whole ring has been written over older records
C24_Witness ==
    /\ AppendReturned /\ hist.fit /\ hist.ndone >= 2
    /\ \A b \in Backends :
           /\ Found(b).some
           /\ Cardinality(ContinuationSlots(Found(b).v)) = SLOT_COUNT - 1

\* an append has just returned a device error
AppendFailed == pc = "ret" /\ res.op = "append" /\ ~res.ok

\* C25: a device error at any step of append (first erase, a payload write, a
\* continuation erase, the header write) leaves (next_idx, prev) as they were,
\* so that the store still points at the slot the failed append erased first
\* and an append started afterwards begins at that slot with the same prev; a
\* scan that returns a device error leaves (next_idx, prev) as they were, also
\* when the device holds a record the scan would have found.
C25_FailureKeepsTip ==
    /\ [][(res'.op \in {"append", "scan"} /\ ~res'.ok) => (st' = st /\ pc' = "ret")]_vars
    /\ [](AppendFailed =>
              \A b \in Backends : res.out[b].acc[1].addr = addr(st[b].idx))
    /\ [][(pc = "idle" /\ pc' = "payload") =>
              \A b \in Backends :
                  /\ w'.per[b].slot_addr = addr(st[b].idx)
                  /\ w'.per[b].slot.prev = st[b].prev
                  /\ st'[b] = st[b]]_vars

\* the header write of a second append has failed
C25_Witness ==
    /\ AppendFailed /\ hist.ndone >= 1
    /\ \A b \in Backends :
           /\ Len(res.out[b].acc) >= 3
           /\ res.out[b].acc[Len(res.out[b].acc)].n = HEADER_SIZE
           /\ st[b].idx # 0
           /\ Found(b).some /\ st[b].prev = Found(b).v.chksum

\* a successful erase(i) has just returned
EraseReturned == pc = "ret" /\ res.op = "erase" /\ res.ok

\* the first byte of slot j on backend b
FirstByte(d, b, j) == flash_read(b, d[b], addr(j), 1)[1]

\* C26: a successful erase(i) issues exactly one device erase, at addr(i),
\* after which slot i mod SLOT_COUNT has first byte MSB 1, and leaves
\* (next_idx, prev) and the first bytes of all other slots as they were; scan
\* never returns a slot whose first byte has MSB 1, and the first byte of a
\* slot keeps MSB 1 until a write puts a header there.
C26_EraseInvalidates ==
    /\ [][(pc = "idle" /\ EraseReturned') =>
              LET i == res'.arg % SLOT_COUNT
              IN  /\ st' = st
                  /\ \A b \in Backends :
                         /\ res'.out[b].acc = <<Access("erase", i * SLOT_SIZE, 1)>>
                         /\ FirstByte(dev', b, i) >= BYTE_MASK
                         /\ \A j \in SlotIdx \ {i} :
                                FirstByte(dev', b, j) = FirstByte(dev, b, j)]_vars
    /\ [](\A b \in Backends :
              Found(b).some => FirstByte(dev, b, Found(b).v.idx) < BYTE_MASK)
    /\ [][\A b \in Backends : \A j \in SlotIdx :
              (FirstByte(dev, b, j) >= BYTE_MASK /\ FirstByte(dev', b, j) < BYTE_MASK)
                  => /\ res'.op = "append"
                     /\ res'.out[b].acc[Len(res'.out[b].acc)]
                            = Access("write", j * SLOT_SIZE, HEADER_SIZE)]_vars

\* the slot of the latest record was erased through an index beyond the ring,
\* and a scan finds an older record
C26_Witness ==
    /\ EraseReturned /\ res.arg >= SLOT_COUNT /\ hist.ndone >= 2
    /\ hist.exp.some
    /\ \A b \in Backends :
           /\ FirstByte(dev, b, res.arg % SLOT_COUNT) >= BYTE_MASK
           /\ Found(b).some
           /\ ~SameHeader(Found(b).v, hist.exp.v)
           /\ st[b].prev = hist.exp.v.chksum

\* C27: after appends that filled several slots, then erase_all(), then
\* appends D1..Dk of payloads that fit the ring, a scan returns the header of
\* Dk and never a header of a record committed before erase_all.
C27_NoResurrection ==
    \A b \in Backends :
        (/\ hist.nevt >= 1 /\ hist.exp.some /\ hist.fit
         /\ pc \in {"idle", "ret"})
            => /\ Found(b).some
               /\ SameHeader(Found(b).v, hist.exp.v)
               /\ ScanReturned => res.out[b].val = Found(b)

\* the byte range of a device call lies on the device and within one slot
InOneSlot(x) ==
    /\ x.addr >= 0 /\ x.addr + x.n <= SLOT_SIZE * SLOT_COUNT
    /\ x.n > 0 => x.addr \div SLOT_SIZE = (x.addr + x.n - 1) \div SLOT_SIZE

\* C28: every device read, write and erase issued by scan, read, write, append
\* and erase covers a byte range within [0, SLOT_SIZE * SLOT_COUNT) and
\* within a single slot, for every slot index argument and payload length.
C28_AccessInSlot ==
    res.op \in {"scan", "read", "append", "erase"} =>
        \A b \in Backends :
            \A k \in 1..Len(res.out[b].acc) : InOneSlot(res.out[b].acc[k])

\* a read through an index beyond the ring has returned a payload that spans
\* slots
C28_Witness ==
    /\ ReadReturned /\ res.arg[1] >= SLOT_COUNT
    /\ \A b \in Backends :
           /\ res.out[b].val.some
           /\ Len(res.out[b].val.v) > FIRST_SPACE
           /\ Len(res.out[b].acc) >= 3

\* a scan now returns what the scan that has just returned did, and leaves
\* (next_idx, prev) as that scan left them
SecondScanSame(b) ==
    LET second == scan(b, dev[b]).current
    IN  /\ second = res.out[b].val
        /\ scan_state(st[b], second) = st[b]

\* a scan now returns the record the append that has just returned wrote, and
\* leaves (next_idx, prev) as the append set them
ScanFindsAppended(b) ==
    LET found == Found(b)
    IN  /\ found.some
        /\ addr(found.v.idx) = res.out[b].acc[1].addr
        /\ SameHeader(found.v, hist.exp.v)
        /\ scan_state(st[b], found) = st[b]

====
